------------------------------ MODULE Spec2Model ------------------------------
(***************************************************************************)
(* Model of the image compressor (src/main.rs): an egui front end          *)
(* (ImageCompressorApp::update, one call per frame) and one worker thread  *)
(* that drains a request channel, runs perform_compression and answers on  *)
(* a result channel.  Text (paths, status messages) is a sequence of       *)
(* one-character strings so that extension(), to_lowercase() and           *)
(* starts_with() are computed character by character.                      *)
(***************************************************************************)
EXTENDS Integers, Sequences, FiniteSets, TLC

(* ------------------------------ bounds -------------------------------- *)

\* Number of Compress clicks followed in a behaviour.
MaxRequests == 2

\* Paths the open-file dialog returns in the behaviours of Spec.
InputPaths == { <<"i",".","p","n","g">>, <<"m",".","j","p","g">> }

\* Paths the save-file dialog returns in the behaviours of Spec.
OutputPaths == { <<"a",".","J","P","G">>, <<"p",".","p","n","g">>, <<"x",".","g","i","f">> }

\* Positions the quality slider is dragged to (raw, before clamping).
SliderPositions == { 0, 40, 101 }

\* Output paths of the tasks WorkerSpec starts from.
TaskOutputPaths == OutputPaths \cup
    { <<"d","/","b",".","j","p","g">>, <<"c",".","j","p","e","g">>, <<"C",".","J","p","E","g">>, <<"p",".","P","n","g">>, <<"w",".","w","e","b","p">>, <<"W",".","W","E","B","P">>,
      <<"o","u","t">>, <<".","p","n","g">>, <<"j",".","p","g","/","p","n","g">>, <<"a",".","p","n","g",".","b","a","k">>, <<"a",".">>, <<"d","/",".",".">>, <<"x",".","j","p","g","x">>, <<"j","p","g">> }

\* Qualities of the tasks WorkerSpec starts from.
TaskQualities == 1..100

\* Qualities a WebP task is compared with.
QualityProbes == { 1, 39, 40, 79, 80, 100 }

\* Reasons image::open can fail with.
LoadReasons == { <<"n","f">>, <<"b","a","d">> }

\* Reasons File::create can fail with.
CreateReasons == { <<"r","o">> }

\* Reasons the encoder can fail with after the file was created.
EncodeReasons == { <<"i","o">> }

(* ------------------------------- text --------------------------------- *)

NoPath == << >>

Upper == << "A","B","C","D","E","F","G","H","I","J","K","L","M",
            "N","O","P","Q","R","S","T","U","V","W","X","Y","Z" >>
Lower == << "a","b","c","d","e","f","g","h","i","j","k","l","m",
            "n","o","p","q","r","s","t","u","v","w","x","y","z" >>

\* char::to_lowercase on the letters that occur in the paths.
lower_char(c) ==
    IF \E i \in 1..Len(Upper) : Upper[i] = c
    THEN Lower[CHOOSE i \in 1..Len(Upper) : Upper[i] = c]
    ELSE c

\* str::to_lowercase
to_lowercase(s) == [i \in 1..Len(s) |-> lower_char(s[i])]

\* str::starts_with
starts_with(s, p) == Len(p) <= Len(s) /\ SubSeq(s, 1, Len(p)) = p

\* Index of the last occurrence of character c in s, 0 when there is none.
LastIndexOf(s, c) ==
    LET I == { i \in 1..Len(s) : s[i] = c }
    IN  IF I = {} THEN 0 ELSE CHOOSE i \in I : \A j \in I : j <= i

\* Path::file_name: the last component of the path.
file_name(p) == SubSeq(p, LastIndexOf(p, "/") + 1, Len(p))

\* Path::extension: Some(text after the last dot of the file name), None
\* when the file name has no dot or only a leading one.  An Option is a
\* sequence of length at most one: None is << >>, Some(e) is <<e>>.
None == << >>
Some(x) == << x >>
extension(p) ==
    LET f == file_name(p)
        d == LastIndexOf(f, ".")
    IN  IF f = << >> \/ f = <<".",".">> \/ d <= 1
        THEN None
        ELSE Some(SubSeq(f, d + 1, Len(f)))

\* Option::map(|s| s.to_lowercase())
map_to_lowercase(o) == IF o = None THEN None ELSE Some(to_lowercase(o[1]))

(* ----------------------------- messages ------------------------------- *)

MsgReady == <<"R","e","a","d","y">>
MsgInputSelected == <<"I","n","p","u","t"," ","f","i","l","e"," ","s","e","l","e","c","t","e","d">>
MsgOutputSelected == <<"O","u","t","p","u","t"," ","f","i","l","e"," ","s","e","l","e","c","t","e","d">>
MsgCompressing == <<"C","o","m","p","r","e","s","s","i","n","g",".",".",".">>
\* MsgErrorLoading with a colon after "Error".
MsgErrorLoading_with_colon == <<"E","r","r","o","r",":"," ","l","o","a","d","i","n","g"," ","i","m","a","g","e",":"," ">>
MsgErrorLoading == <<"E","r","r","o","r"," ","l","o","a","d","i","n","g"," ","i","m","a","g","e",":"," ">>
MsgUnsupported == <<"E","r","r","o","r",":"," ","u","n","s","u","p","p","o","r","t","e","d"," ","f","o","r","m","a","t","."," ","U","s","e"," ",".","j","p","g",","," ",".","p","n","g",","," ","o","r"," ",".","w","e","b","p">>
MsgUnsupportedShort == <<"E","r","r","o","r",":"," ","u","n","s","u","p","p","o","r","t","e","d"," ","f","o","r","m","a","t">>
MsgSuccess == <<"S","u","c","c","e","s","s",":"," ","s","a","v","e","d"," ","t","o"," ">>
MsgErrorSaving == <<"E","r","r","o","r"," ","s","a","v","i","n","g"," ","i","m","a","g","e",":"," ">>

\* Result<String, String>
Ok(m) == [ok |-> TRUE, msg |-> m]
Err(m) == [ok |-> FALSE, msg |-> m]

(* ------------------------------ encoders ------------------------------ *)

\* What an encoder was constructed with.  quality is 0 and compression is
\* "-" where the encoder takes no such parameter.
NoEncoder == [codec |-> "-", quality |-> 0, compression |-> "-", filter |-> "-"]

\* The outcome of one save_* call: its Result, the file it created or
\* truncated (NoPath when File::create was not reached or failed) and the
\* encoder it built.
SaveOutcome(res, created, enc) == [res |-> res, created |-> created, encoder |-> enc]

\* No failure: the value of env.open, env.create or env.encode when the step
\* succeeds; otherwise they hold the text of the failure.
NoError == << >>

\* File::create(path)? followed by the encoder call, shared by the three
\* save_* helpers.
CreateThenEncode(path, enc, env) ==
    IF env.create # NoError
    THEN SaveOutcome(Err(env.create), NoPath, NoEncoder)
    ELSE IF env.encode # NoError
         THEN SaveOutcome(Err(env.encode), path, enc)
         ELSE SaveOutcome(Ok(<< >>), path, enc)

save_jpeg(path, quality, env) ==
    CreateThenEncode(path,
        [codec |-> "jpeg", quality |-> quality, compression |-> "-", filter |-> "-"],
        env)

\* png_compression with the first threshold off by one (<= 40).
png_compression_off_by_one(quality) ==
    IF quality <= 40 THEN "Fast"
    ELSE IF quality < 80 THEN "Default"
    ELSE "Best"

\* CompressionType chosen from the quality.
png_compression(quality) ==
    IF quality < 40 THEN "Fast"
    ELSE IF quality < 80 THEN "Default"
    ELSE "Best"

save_png(path, quality, env) ==
    CreateThenEncode(path,
        [codec |-> "png", quality |-> 0, compression |-> png_compression(quality),
         filter |-> "Adaptive"],
        env)

save_webp_lossless(path, env) ==
    CreateThenEncode(path,
        [codec |-> "webp", quality |-> 0, compression |-> "lossless", filter |-> "-"],
        env)

(* ------------------------- perform_compression ------------------------ *)

\* select_format without the to_lowercase step.
select_format_case_sensitive(output_path) ==
    LET e == extension(output_path)
    IN  IF e = Some(<<"j","p","g">>) \/ e = Some(<<"j","p","e","g">>) THEN "Jpeg"
        ELSE IF e = Some(<<"p","n","g">>) THEN "Png"
        ELSE IF e = Some(<<"w","e","b","p">>) THEN "WebP"
        ELSE "unsupported"

\* select_format with PNG as the fallback arm.
select_format_default_png(output_path) ==
    LET e == map_to_lowercase(extension(output_path))
    IN  IF e = Some(<<"j","p","g">>) \/ e = Some(<<"j","p","e","g">>) THEN "Jpeg"
        ELSE IF e = Some(<<"w","e","b","p">>) THEN "WebP"
        ELSE "Png"

\* The match on the lowercased extension of the output path.
select_format(output_path) ==
    LET e == map_to_lowercase(extension(output_path))
    IN  IF e = Some(<<"j","p","g">>) \/ e = Some(<<"j","p","e","g">>) THEN "Jpeg"
        ELSE IF e = Some(<<"p","n","g">>) THEN "Png"
        ELSE IF e = Some(<<"w","e","b","p">>) THEN "WebP"
        ELSE "unsupported"

\* What one run of perform_compression did: the file it opened, whether it
\* decoded, the format it selected ("-" when not reached), the file it
\* created or truncated, the encoder it built.
Op(read, decoded, format, created, enc) ==
    [read |-> read, decoded |-> decoded, format |-> format,
     created |-> created, encoder |-> enc]

NoOp == Op(NoPath, FALSE, "-", NoPath, NoEncoder)

\* perform_compression with the quality handed to a lossy WebP encoder.
perform_compression_webp_lossy(task, env) ==
    IF env.open # NoError
    THEN [result |-> Err(MsgErrorLoading \o env.open),
          op |-> Op(task.input_path, FALSE, "-", NoPath, NoEncoder)]
    ELSE LET format == select_format(task.output_path)
         IN  IF format = "unsupported"
             THEN [result |-> Err(MsgUnsupported),
                   op |-> Op(task.input_path, TRUE, format, NoPath, NoEncoder)]
             ELSE LET s == CASE format = "Jpeg" -> save_jpeg(task.output_path, task.quality, env)
                             [] format = "Png" -> save_png(task.output_path, task.quality, env)
                             [] format = "WebP" ->
                                  CreateThenEncode(task.output_path,
                                      [codec |-> "webp", quality |-> task.quality,
                                       compression |-> "lossy", filter |-> "-"],
                                      env)
                  IN  [result |-> IF s.res.ok
                                  THEN Ok(MsgSuccess \o task.output_path)
                                  ELSE Err(MsgErrorSaving \o s.res.msg),
                       op |-> Op(task.input_path, TRUE, format, s.created, s.encoder)]

\* perform_compression with the format selected before the input is opened.
perform_compression_dispatch_first(task, env) ==
    LET format == select_format(task.output_path)
    IN  IF format = "unsupported"
        THEN [result |-> Err(MsgUnsupported),
              op |-> Op(task.input_path, FALSE, format, NoPath, NoEncoder)]
        ELSE IF env.open # NoError
        THEN [result |-> Err(MsgErrorLoading \o env.open),
              op |-> Op(task.input_path, FALSE, format, NoPath, NoEncoder)]
        ELSE LET s == CASE format = "Jpeg" -> save_jpeg(task.output_path, task.quality, env)
                        [] format = "Png" -> save_png(task.output_path, task.quality, env)
                        [] format = "WebP" -> save_webp_lossless(task.output_path, env)
             IN  [result |-> IF s.res.ok
                             THEN Ok(MsgSuccess \o task.output_path)
                             ELSE Err(MsgErrorSaving \o s.res.msg),
                  op |-> Op(task.input_path, TRUE, format, s.created, s.encoder)]

\* perform_compression(task) in the environment env (what image::open,
\* File::create and the encoder answer).  Returns the Result and the record
\* of what was done.
perform_compression(task, env) ==
    IF env.open # NoError
    THEN [result |-> Err(MsgErrorLoading \o env.open),
          op |-> Op(task.input_path, FALSE, "-", NoPath, NoEncoder)]
    ELSE LET format == select_format(task.output_path)
         IN  IF format = "unsupported"
             THEN [result |-> Err(MsgUnsupported),
                   op |-> Op(task.input_path, TRUE, format, NoPath, NoEncoder)]
             ELSE IF format \notin {"Jpeg", "Png", "WebP"}
             THEN [result |-> Err(MsgUnsupportedShort),
                   op |-> Op(task.input_path, TRUE, format, NoPath, NoEncoder)]
             ELSE LET s == CASE format = "Jpeg" -> save_jpeg(task.output_path, task.quality, env)
                             [] format = "Png" -> save_png(task.output_path, task.quality, env)
                             [] format = "WebP" -> save_webp_lossless(task.output_path, env)
                  IN  [result |-> IF s.res.ok
                                  THEN Ok(MsgSuccess \o task.output_path)
                                  ELSE Err(MsgErrorSaving \o s.res.msg),
                       op |-> Op(task.input_path, TRUE, format, s.created, s.encoder)]

(* ------------------------------- state -------------------------------- *)

VARIABLES
    input_path,        \* ImageCompressorApp.input_path: None or Some(path)
    output_path,       \* ImageCompressorApp.output_path: None or Some(path)
    quality,           \* ImageCompressorApp.quality
    status_message,    \* ImageCompressorApp.status_message
    is_compressing,    \* ImageCompressorApp.is_compressing
    compress_ch,       \* channel compress_tx -> compress_rx
    result_ch,         \* channel result_tx -> result_rx
    upc,               \* position of the UI thread inside update()
    repaint,           \* a repaint was requested by the last frame
    wpc,               \* position of the worker thread
    wtask,             \* the task the worker holds
    wresult,           \* the result the worker is about to send
    wop,               \* what the running perform_compression did
    closed,            \* the application was dropped: compress_tx and result_rx are gone
    sent,              \* history: number of tasks sent by the UI
    received,          \* history: number of outcomes received by the UI's poll
    idled,             \* history: number of Busy -> Idle transitions of the UI
    failures,          \* history: number of Err results perform_compression returned
    submitted          \* history: the selection copied by the last submit

vars == << input_path, output_path, quality, status_message, is_compressing,
           compress_ch, result_ch, upc, repaint, wpc, wtask, wresult, wop,
           closed, sent, received, idled, failures, submitted >>

ui_vars == << input_path, output_path, quality, status_message, is_compressing >>
worker_vars == << wpc, wtask, wresult, wop >>
count_vars == << sent, received, idled, failures, submitted >>

NoTask == [input_path |-> NoPath, output_path |-> NoPath, quality |-> 0]
NoResult == [ok |-> FALSE, msg |-> << >>]

\* struct CompressionTask
CompressionTask(i, o, q) == [input_path |-> i, output_path |-> o, quality |-> q]

\* ImageCompressorApp::default()
Init ==
    /\ input_path = None
    /\ output_path = None
    /\ quality = 80
    /\ status_message = MsgReady
    /\ is_compressing = FALSE
    /\ compress_ch = << >>
    /\ result_ch = << >>
    /\ upc = "poll"
    /\ repaint = TRUE
    /\ wpc = "recv"
    /\ wtask = NoTask
    /\ wresult = NoResult
    /\ wop = NoOp
    /\ closed = FALSE
    /\ sent = 0
    /\ received = 0
    /\ idled = 0
    /\ failures = 0
    /\ submitted = NoTask

(* ------------------------------ UI thread ----------------------------- *)

\* Poll with is_compressing cleared outside the if-let, on every frame.
Poll_always_idle ==
    /\ upc = "poll"
    /\ ~closed
    /\ is_compressing' = FALSE
    /\ idled' = IF is_compressing THEN idled + 1 ELSE idled
    /\ IF result_ch # << >>
       THEN /\ status_message' = Head(result_ch).msg
            /\ result_ch' = Tail(result_ch)
            /\ received' = received + 1
       ELSE UNCHANGED << status_message, result_ch, received >>
    /\ upc' = "widgets"
    /\ repaint' = FALSE
    /\ UNCHANGED << input_path, output_path, quality, compress_ch, closed,
                    sent, failures, submitted >>
    /\ UNCHANGED worker_vars

\* Poll that acts on Ok(Ok(msg)) only: an Err outcome is taken from the
\* channel and dropped.
Poll_only_ok ==
    /\ upc = "poll"
    /\ ~closed
    /\ IF result_ch # << >>
       THEN /\ is_compressing' = IF Head(result_ch).ok THEN FALSE ELSE is_compressing
            /\ status_message' = IF Head(result_ch).ok THEN Head(result_ch).msg
                                                       ELSE status_message
            /\ result_ch' = Tail(result_ch)
            /\ received' = received + 1
            /\ idled' = IF is_compressing /\ Head(result_ch).ok THEN idled + 1 ELSE idled
       ELSE UNCHANGED << is_compressing, status_message, result_ch, received, idled >>
    /\ upc' = "widgets"
    /\ repaint' = FALSE
    /\ UNCHANGED << input_path, output_path, quality, compress_ch, closed,
                    sent, failures, submitted >>
    /\ UNCHANGED worker_vars

\* Poll that takes the status from an Ok outcome only.
Poll_status_from_ok_only ==
    /\ upc = "poll"
    /\ ~closed
    /\ IF result_ch # << >>
       THEN /\ is_compressing' = FALSE
            /\ status_message' = IF Head(result_ch).ok THEN Head(result_ch).msg
                                                       ELSE status_message
            /\ result_ch' = Tail(result_ch)
            /\ received' = received + 1
            /\ idled' = IF is_compressing THEN idled + 1 ELSE idled
       ELSE UNCHANGED << is_compressing, status_message, result_ch, received, idled >>
    /\ upc' = "widgets"
    /\ repaint' = FALSE
    /\ UNCHANGED << input_path, output_path, quality, compress_ch, closed,
                    sent, failures, submitted >>
    /\ UNCHANGED worker_vars

\* The head of update(): result_rx.try_recv() and, on Ok, the two
\* assignments.
Poll ==
    /\ upc = "poll"
    /\ ~closed
    /\ IF result_ch # << >>
       THEN /\ is_compressing' = FALSE
            /\ status_message' = Head(result_ch).msg
            /\ result_ch' = Tail(result_ch)
            /\ received' = received + 1
            /\ idled' = IF is_compressing THEN idled + 1 ELSE idled
       ELSE UNCHANGED << is_compressing, status_message, result_ch, received, idled >>
    /\ upc' = "widgets"
    /\ repaint' = FALSE
    /\ UNCHANGED << input_path, output_path, quality, compress_ch, closed,
                    sent, failures, submitted >>
    /\ UNCHANGED worker_vars

\* A frame that runs because the previous one called request_repaint().
FrameOnRepaint == repaint /\ Poll

\* A frame that runs because of user input (pointer, keyboard).
FrameOnInput == ~repaint /\ Poll

\* PickInput that also resets the busy flag.
PickInput_resets_busy(path) ==
    /\ upc = "widgets"
    /\ input_path' = Some(path)
    /\ status_message' = MsgInputSelected
    /\ is_compressing' = FALSE
    /\ upc' = "repaint"
    /\ UNCHANGED << output_path, quality, compress_ch, result_ch, repaint, closed >>
    /\ UNCHANGED worker_vars
    /\ UNCHANGED count_vars

\* "Browse..." of the input file clicked and the dialog confirmed with path.
PickInput(path) ==
    /\ upc = "widgets"
    /\ input_path' = Some(path)
    /\ status_message' = MsgInputSelected
    /\ upc' = "repaint"
    /\ UNCHANGED << output_path, quality, is_compressing, compress_ch, result_ch, repaint, closed >>
    /\ UNCHANGED worker_vars
    /\ UNCHANGED count_vars

\* "Browse..." of the output file clicked and the dialog confirmed with path.
PickOutput(path) ==
    /\ upc = "widgets"
    /\ output_path' = Some(path)
    /\ status_message' = MsgOutputSelected
    /\ upc' = "repaint"
    /\ UNCHANGED << input_path, quality, is_compressing, compress_ch, result_ch, repaint, closed >>
    /\ UNCHANGED worker_vars
    /\ UNCHANGED count_vars

\* A cancelled dialog that clears the status line.
NoWidget_clears_status ==
    /\ upc = "widgets"
    /\ upc' = "repaint"
    /\ status_message' = << >>
    /\ UNCHANGED << input_path, output_path, quality, is_compressing >>
    /\ UNCHANGED << compress_ch, result_ch, repaint, closed >>
    /\ UNCHANGED worker_vars
    /\ UNCHANGED count_vars

\* A frame in which no widget changes anything: no click, a dialog that was
\* cancelled (pick_file / save_file returned None), or a click on the
\* disabled Compress button.
NoWidget ==
    /\ upc = "widgets"
    /\ upc' = "repaint"
    /\ UNCHANGED ui_vars
    /\ UNCHANGED << compress_ch, result_ch, repaint, closed >>
    /\ UNCHANGED worker_vars
    /\ UNCHANGED count_vars

\* A slider that writes the raw position.
clamp_missing(v, lo, hi) == v

\* egui::Slider over 1..=100 clamps what it writes into the value.
clamp(v, lo, hi) == IF v < lo THEN lo ELSE IF v > hi THEN hi ELSE v

\* The quality slider dragged to position v.
MoveSlider(v) ==
    /\ upc = "widgets"
    /\ quality' = clamp(v, 1, 100)
    /\ upc' = "repaint"
    /\ UNCHANGED << input_path, output_path, status_message, is_compressing,
                    compress_ch, result_ch, repaint, closed >>
    /\ UNCHANGED worker_vars
    /\ UNCHANGED count_vars

\* The enable rule without the busy test.
can_compress_ignoring_busy == input_path # None /\ output_path # None

\* The enable rule of the Compress button.
can_compress == input_path # None /\ output_path # None /\ ~is_compressing

\* Sender::send(task): the task is queued unless the receiver was dropped
\* (the worker left its loop); the caller discards the Result.
send_task(ch, task) == IF wpc = "exited" THEN ch ELSE Append(ch, task)

\* A Compress click that sends the task without setting the busy flag.
ClickCompress_stays_idle ==
    /\ upc = "widgets"
    /\ sent < MaxRequests
    /\ can_compress
    /\ input_path # None /\ output_path # None
    /\ LET task == CompressionTask(input_path[1], output_path[1], quality)
       IN  /\ compress_ch' = send_task(compress_ch, task)
           /\ submitted' = task
    /\ status_message' = MsgCompressing
    /\ sent' = sent + 1
    /\ upc' = "repaint"
    /\ UNCHANGED << input_path, output_path, quality, is_compressing, result_ch,
                    repaint, closed, received, idled, failures >>
    /\ UNCHANGED worker_vars

\* The Compress button clicked: add_enabled(can_compress, ..).clicked() is
\* true only for an enabled button; the body then needs both paths.
ClickCompress ==
    /\ upc = "widgets"
    /\ sent < MaxRequests
    /\ can_compress
    /\ input_path # None /\ output_path # None
    /\ LET task == CompressionTask(input_path[1], output_path[1], quality)
       IN  /\ compress_ch' = send_task(compress_ch, task)
           /\ submitted' = task
    /\ is_compressing' = TRUE
    /\ status_message' = MsgCompressing
    /\ sent' = sent + 1
    /\ upc' = "repaint"
    /\ UNCHANGED << input_path, output_path, quality, result_ch, repaint, closed,
                    received, idled, failures >>
    /\ UNCHANGED worker_vars

\* The tail of update() without the request_repaint() call.
EndFrame_no_repaint ==
    /\ upc = "repaint"
    /\ repaint' = FALSE
    /\ upc' = "poll"
    /\ UNCHANGED ui_vars
    /\ UNCHANGED << compress_ch, result_ch, closed >>
    /\ UNCHANGED worker_vars
    /\ UNCHANGED count_vars

\* The tail of update(): request_repaint() while is_compressing.
EndFrame ==
    /\ upc = "repaint"
    /\ repaint' = is_compressing
    /\ upc' = "poll"
    /\ UNCHANGED ui_vars
    /\ UNCHANGED << compress_ch, result_ch, closed >>
    /\ UNCHANGED worker_vars
    /\ UNCHANGED count_vars

(* ---------------------------- worker thread --------------------------- *)

\* A receive that leaves the task in the channel.
WorkerRecv_peek ==
    /\ wpc = "recv"
    /\ compress_ch # << >>
    /\ wtask' = Head(compress_ch)
    /\ wpc' = "compress"
    /\ UNCHANGED << wresult, wop, compress_ch, result_ch, upc, repaint, closed >>
    /\ UNCHANGED ui_vars
    /\ UNCHANGED count_vars

\* compress_rx.recv() returns Ok(task).
WorkerRecv ==
    /\ wpc = "recv"
    /\ compress_ch # << >>
    /\ wtask' = Head(compress_ch)
    /\ compress_ch' = Tail(compress_ch)
    /\ wpc' = "compress"
    /\ UNCHANGED << wresult, wop, result_ch, upc, repaint, closed >>
    /\ UNCHANGED ui_vars
    /\ UNCHANGED count_vars

\* WorkerCompress reading the selection of the UI instead of its task.
WorkerCompress_reads_ui ==
    /\ wpc = "compress"
    /\ input_path # None /\ output_path # None
    /\ \E o \in {NoError} \cup LoadReasons,
          c \in {NoError} \cup CreateReasons,
          e \in {NoError} \cup EncodeReasons :
            LET r == perform_compression(
                         CompressionTask(input_path[1], output_path[1], quality),
                         [open |-> o, create |-> c, encode |-> e])
            IN  /\ wresult' = r.result
                /\ wop' = r.op
                /\ failures' = IF r.result.ok THEN failures ELSE failures + 1
    /\ wpc' = "send"
    /\ UNCHANGED << wtask, compress_ch, result_ch, upc, repaint, closed >>
    /\ UNCHANGED ui_vars
    /\ UNCHANGED << sent, received, idled, submitted >>

\* let result = perform_compression(task), in some state of the file system.
WorkerCompress ==
    /\ wpc = "compress"
    /\ \E o \in {NoError} \cup LoadReasons,
          c \in {NoError} \cup CreateReasons,
          e \in {NoError} \cup EncodeReasons :
            LET r == perform_compression(wtask, [open |-> o, create |-> c, encode |-> e])
            IN  /\ wresult' = r.result
                /\ wop' = r.op
                /\ failures' = IF r.result.ok THEN failures ELSE failures + 1
    /\ wpc' = "send"
    /\ UNCHANGED << wtask, compress_ch, result_ch, upc, repaint, closed >>
    /\ UNCHANGED ui_vars
    /\ UNCHANGED << sent, received, idled, submitted >>

\* Sender::send(result): the result is queued unless the receiver was
\* dropped with the application; the caller discards the Result.
send_result(ch, result) == IF closed THEN ch ELSE Append(ch, result)

\* WorkerSend that sends Ok results only.
WorkerSend_errors_dropped ==
    /\ wpc = "send"
    /\ result_ch' = IF wresult.ok THEN send_result(result_ch, wresult) ELSE result_ch
    /\ wpc' = "recv"
    /\ wtask' = NoTask
    /\ wresult' = NoResult
    /\ wop' = NoOp
    /\ UNCHANGED << compress_ch, upc, repaint, closed >>
    /\ UNCHANGED ui_vars
    /\ UNCHANGED count_vars

\* WorkerSend that leaves the loop after sending an Err result.
WorkerSend_exit_on_error ==
    /\ wpc = "send"
    /\ result_ch' = send_result(result_ch, wresult)
    /\ wpc' = IF wresult.ok THEN "recv" ELSE "exited"
    /\ wtask' = NoTask
    /\ wresult' = NoResult
    /\ wop' = NoOp
    /\ UNCHANGED << compress_ch, upc, repaint, closed >>
    /\ UNCHANGED ui_vars
    /\ UNCHANGED count_vars

\* let _ = result_tx.send(result), and back to the head of the loop.
WorkerSend ==
    /\ wpc = "send"
    /\ result_ch' = send_result(result_ch, wresult)
    /\ wpc' = "recv"
    /\ wtask' = NoTask
    /\ wresult' = NoResult
    /\ wop' = NoOp
    /\ UNCHANGED << compress_ch, upc, repaint, closed >>
    /\ UNCHANGED ui_vars
    /\ UNCHANGED count_vars

\* compress_rx.recv() returns Err: every Sender is gone and the channel is
\* empty.  The while-let loop ends and the thread returns.
WorkerExit ==
    /\ wpc = "recv"
    /\ closed
    /\ compress_ch = << >>
    /\ wpc' = "exited"
    /\ UNCHANGED << wtask, wresult, wop, compress_ch, result_ch, upc, repaint, closed >>
    /\ UNCHANGED ui_vars
    /\ UNCHANGED count_vars

(* ------------------------------ shutdown ------------------------------ *)

\* run_native returns: the application is dropped between two frames, and
\* with it compress_tx and result_rx (whose queued results are dropped).
Close ==
    /\ upc = "poll"
    /\ ~closed
    /\ closed' = TRUE
    /\ result_ch' = << >>
    /\ UNCHANGED << compress_ch, upc, repaint >>
    /\ UNCHANGED ui_vars
    /\ UNCHANGED worker_vars
    /\ UNCHANGED count_vars

\* main returns once run_native has returned: the process ends, and the
\* worker thread, which was spawned detached and is never joined, ends with
\* it wherever it is.
ProcessExit ==
    /\ closed
    /\ wpc \notin {"exited", "killed"}
    /\ wpc' = "killed"
    /\ UNCHANGED << wtask, wresult, wop, compress_ch, result_ch, upc, repaint, closed >>
    /\ UNCHANGED ui_vars
    /\ UNCHANGED count_vars

(* --------------------------- specifications --------------------------- *)

Widgets ==
    \/ \E p \in InputPaths : PickInput(p)
    \/ \E p \in OutputPaths : PickOutput(p)
    \/ \E v \in SliderPositions : MoveSlider(v)
    \/ NoWidget
    \/ ClickCompress

Worker == WorkerRecv \/ WorkerCompress \/ WorkerSend

Next ==
    \/ FrameOnRepaint
    \/ FrameOnInput
    \/ Widgets
    \/ EndFrame
    \/ Worker

Spec == Init /\ [][Next]_vars

\* A frame whose repaint was requested is run by the event loop, and a
\* frame that started runs to its end.  The worker thread is scheduled: it
\* takes a queued task and sends a computed result, and every call of
\* perform_compression returns (the worker does not stay in it forever;
\* WorkerCompress is the only step that leaves wpc = "compress" and it is
\* enabled whenever wpc = "compress").
Fairness ==
    /\ WF_vars(FrameOnRepaint)
    /\ WF_vars(Widgets)
    /\ WF_vars(EndFrame)
    /\ WF_vars(WorkerRecv)
    /\ WF_vars(WorkerSend)
    /\ []<>(wpc # "compress")

LiveSpec == Spec /\ Fairness

\* The worker holding an arbitrary task: the state right after the UI
\* submitted the task and the worker received it.
WorkerInit ==
    \E i \in InputPaths, o \in TaskOutputPaths, q \in TaskQualities :
        /\ input_path = Some(i)
        /\ output_path = Some(o)
        /\ quality = q
        /\ status_message = MsgCompressing
        /\ is_compressing = TRUE
        /\ compress_ch = << >>
        /\ result_ch = << >>
        /\ upc = "repaint"
        /\ repaint = FALSE
        /\ wpc = "compress"
        /\ wtask = CompressionTask(i, o, q)
        /\ wresult = NoResult
        /\ wop = NoOp
        /\ closed = FALSE
        /\ sent = 1
        /\ received = 0
        /\ idled = 0
        /\ failures = 0
        /\ submitted = CompressionTask(i, o, q)

WorkerNext == WorkerCompress \/ WorkerSend

WorkerSpec == WorkerInit /\ [][WorkerNext]_vars

\* The application with its shutdown.
ShutdownNext == Next \/ Close \/ WorkerExit \/ ProcessExit

ShutdownSpec == Init /\ [][ShutdownNext]_vars

TypeOK ==
    /\ input_path \in {None} \cup { Some(p) : p \in InputPaths }
    /\ output_path \in {None} \cup { Some(p) : p \in TaskOutputPaths }
    /\ quality \in 1..100
    /\ is_compressing \in BOOLEAN
    /\ upc \in {"poll", "widgets", "repaint"}
    /\ wpc \in {"recv", "compress", "send", "exited", "killed"}
    /\ closed \in BOOLEAN
    /\ repaint \in BOOLEAN
    /\ sent \in 0..MaxRequests

(* ------------------------------- claims ------------------------------- *)

\* Requests sent by the UI whose outcome the UI has not received: queued
\* for the worker, held by the worker, or answered and not yet polled.
Outstanding ==
    Len(compress_ch) + (IF wpc \in {"compress", "send"} THEN 1 ELSE 0) + Len(result_ch)

\* C1: in every reachable state at most one request is outstanding, and the
\* request channel holds at most one task.
C1_BusyExclusivity == Outstanding <= 1 /\ Len(compress_ch) <= 1

\* A second task is queued after the first one was answered.
C1_Witness == sent = 2 /\ received = 1 /\ Len(compress_ch) = 1

\* The counters of one-to-one delivery: never more outcomes than requests,
\* never two requests without an outcome in between, one Busy -> Idle
\* transition per outcome.
OneToOneCounts == received <= sent /\ sent <= received + 1 /\ idled = received

\* C2: every task sent is answered by exactly one outcome that the poll
\* receives, and the UI goes Busy -> Idle exactly once per task: the counts
\* never run ahead, and the k-th task sent leads to the k-th outcome
\* received and the k-th Busy -> Idle transition.
C2_OneToOne ==
    /\ []OneToOneCounts
    /\ \A k \in 1..MaxRequests : (sent >= k) ~> (received >= k /\ idled >= k)

\* Two tasks were sent and both were answered.
C2_Witness == sent = 2 /\ received = 2 /\ idled = 2 /\ ~is_compressing

\* C3: while is_compressing is true exactly one request is outstanding.
C3_BusyHasOneOutstanding == is_compressing => Outstanding = 1

\* The UI is busy and the outcome waits in the result channel.
C3_Witness == is_compressing /\ Len(result_ch) = 1 /\ upc = "poll"

\* C4: under fair scheduling of the worker and of the frames that were asked
\* for, a busy UI eventually becomes idle again.
C4_BusyLeadsToIdle == is_compressing ~> ~is_compressing

\* The UI is idle again after a save error.
C4_Witness ==
    /\ ~is_compressing
    /\ received = 1
    /\ starts_with(status_message, <<"E","r","r","o","r"," ","s","a","v","i","n","g"," ","i","m","a","g","e",":"," ">>)

\* The three conditions of the enable rule.
Submittable == input_path # None /\ output_path # None /\ ~is_compressing

\* C5: in the widgets part of a frame the Compress click is possible exactly
\* when both paths are present and the UI is not busy; a task is put on the
\* request channel only from such a state; from any other state no step of
\* the frame emits a request or sets the busy flag.
C5_SubmitOnlyWhenEnabled ==
    /\ [](upc = "widgets" /\ sent < MaxRequests => (ENABLED ClickCompress <=> Submittable))
    /\ [][(Len(compress_ch') > Len(compress_ch) \/ sent' # sent)
             => (Submittable /\ upc = "widgets")]_vars
    /\ [][(upc = "widgets" /\ ~Submittable)
             => (Len(compress_ch') <= Len(compress_ch) /\ sent' = sent
                 /\ is_compressing' = is_compressing)]_vars

\* A frame reaches its widgets while the UI is busy and both paths are set.
C5_Witness ==
    upc = "widgets" /\ is_compressing /\ input_path # None /\ output_path # None

\* C6: the UI starts idle; is_compressing becomes true only by a Compress
\* click with both paths set, and becomes false only by a poll that takes an
\* outcome from the result channel.
C6_TwoTransitions ==
    /\ ~is_compressing
    /\ [][(~is_compressing /\ is_compressing')
             => (upc = "widgets" /\ input_path # None /\ output_path # None
                 /\ sent' = sent + 1 /\ status_message' = MsgCompressing)]_vars
    /\ [][(is_compressing /\ ~is_compressing')
             => (upc = "poll" /\ result_ch # << >> /\ result_ch' = Tail(result_ch)
                 /\ received' = received + 1)]_vars

\* The UI is busy for the second time, after one Busy -> Idle transition.
C6_Witness == is_compressing /\ idled = 1 /\ sent = 2

\* C7: what the worker did and answered is what perform_compression does
\* with the selection copied at submit time, in some state of the file
\* system; a success message names the output path of the request.
C7_SnapshotIsolation ==
    wpc = "send" =>
        /\ \E o \in {NoError} \cup LoadReasons,
              c \in {NoError} \cup CreateReasons,
              e \in {NoError} \cup EncodeReasons :
                perform_compression(submitted, [open |-> o, create |-> c, encode |-> e])
                    = [result |-> wresult, op |-> wop]
        /\ wop.read = submitted.input_path
        /\ wop.created \in {NoPath, submitted.output_path}
        /\ wop.encoder.codec = "jpeg" => wop.encoder.quality = submitted.quality
        /\ wresult.ok => wresult.msg = <<"S","u","c","c","e","s","s",":"," ","s","a","v","e","d"," ","t","o"," ">> \o submitted.output_path

\* The request succeeded after the UI changed all three selections.
C7_Witness ==
    /\ wpc = "send"
    /\ wresult.ok
    /\ input_path # Some(submitted.input_path)
    /\ output_path # Some(submitted.output_path)
    /\ quality # submitted.quality

\* C8: the worker stays in its loop after perform_compression returned an
\* Err: it sends the failure and receives again, and every request that is
\* outstanding once a failure happened is answered.
C8_WorkerSurvivesErrors ==
    /\ [](failures > 0 => wpc # "exited")
    /\ [][(wpc = "send" /\ ~wresult.ok /\ wpc' # wpc)
             => (wpc' = "recv" /\ result_ch' = Append(result_ch, wresult))]_vars
    /\ (failures > 0 /\ sent > received) ~> (sent = received)

\* The second request succeeded after the first one failed.
C8_Witness ==
    /\ failures = 1
    /\ received = 2
    /\ ~is_compressing
    /\ starts_with(status_message, <<"S","u","c","c","e","s","s">>)

\* The lowercased extension of the output path of the worker's task.
TaskExtension == map_to_lowercase(extension(wtask.output_path))

\* C9: the format selected for a decoded input is given by the lowercased
\* extension of the output path alone: jpg and jpeg give JPEG, png gives
\* PNG, webp gives WebP, anything else and no extension give none.
C9_FormatDispatch ==
    (wpc = "send" /\ wop.decoded) =>
        /\ wop.format = "Jpeg" <=> TaskExtension \in {Some(<<"j","p","g">>), Some(<<"j","p","e","g">>)}
        /\ wop.format = "Png" <=> TaskExtension = Some(<<"p","n","g">>)
        /\ wop.format = "WebP" <=> TaskExtension = Some(<<"w","e","b","p">>)
        /\ wop.format = "unsupported" <=>
               TaskExtension \notin {Some(<<"j","p","g">>), Some(<<"j","p","e","g">>), Some(<<"p","n","g">>), Some(<<"w","e","b","p">>)}
        /\ wop.format \in {"Jpeg", "Png", "WebP", "unsupported"}

\* An upper-case .JPG output path was dispatched to JPEG.
C9_Witness ==
    /\ wpc = "send"
    /\ wop.decoded
    /\ wtask.output_path = <<"a",".","J","P","G">>
    /\ wop.format = "Jpeg"

\* C10: a decoded input with an output extension other than jpg, jpeg, png,
\* webp (in any letter case), or with none, gives exactly the
\* unsupported-format error, and no file is created or truncated.
C10_UnsupportedFormat ==
    (/\ wpc = "send"
     /\ wop.decoded
     /\ TaskExtension \notin {Some(<<"j","p","g">>), Some(<<"j","p","e","g">>), Some(<<"p","n","g">>), Some(<<"w","e","b","p">>)})
    => /\ wresult = Err(<<"E","r","r","o","r",":"," ","u","n","s","u","p","p","o","r","t","e","d"," ","f","o","r","m","a","t","."," ","U","s","e"," ",".","j","p","g",","," ",".","p","n","g",","," ","o","r"," ",".","w","e","b","p">>)
       /\ wop.created = NoPath
       /\ wop.encoder = NoEncoder

\* A decoded input with a path without extension was answered.
C10_Witness ==
    /\ wpc = "send"
    /\ wop.decoded
    /\ wtask.output_path = <<"o","u","t">>
    /\ ~wresult.ok

\* The worker holds the result of a task whose input did not open or decode.
LoadFailed == wpc = "send" /\ ~wop.decoded

\* C11: when the input cannot be opened or decoded the result is an Err that
\* begins with "Error loading image:", no output file is created or
\* truncated whatever the extension, and the UI then becomes idle showing a
\* status that begins with "Error loading image:".
C11_LoadError ==
    /\ [](LoadFailed =>
             /\ ~wresult.ok
             /\ starts_with(wresult.msg, <<"E","r","r","o","r"," ","l","o","a","d","i","n","g"," ","i","m","a","g","e",":">>)
             /\ wop.created = NoPath)
    /\ LoadFailed ~>
           (~is_compressing /\ starts_with(status_message, <<"E","r","r","o","r"," ","l","o","a","d","i","n","g"," ","i","m","a","g","e",":">>))

\* The UI is idle and shows the load error of a request with an unsupported
\* output extension.
C11_Witness ==
    /\ ~is_compressing
    /\ received = 1
    /\ submitted.output_path = <<"x",".","g","i","f">>
    /\ starts_with(status_message, <<"E","r","r","o","r"," ","l","o","a","d","i","n","g"," ","i","m","a","g","e",":">>)

\* C12: a PNG encoder is built with exactly one compression level, given by
\* the quality of the task: Fast below 40, Default from 40 to 79, Best from
\* 80 up; so 39 is Fast, 40 and 79 are Default, 80 (the default quality) is
\* Best.
C12_PngCompression ==
    (wpc = "send" /\ wop.encoder.codec = "png") =>
        /\ wtask.quality \in 1..100
        /\ wop.encoder.compression \in {"Fast", "Default", "Best"}
        /\ wop.encoder.compression = "Fast" <=> wtask.quality < 40
        /\ wop.encoder.compression = "Default" <=> (40 <= wtask.quality /\ wtask.quality < 80)
        /\ wop.encoder.compression = "Best" <=> wtask.quality >= 80
        /\ wtask.quality = 39 => wop.encoder.compression = "Fast"
        /\ wtask.quality = 40 => wop.encoder.compression = "Default"
        /\ wtask.quality = 79 => wop.encoder.compression = "Default"
        /\ wtask.quality = 80 => wop.encoder.compression = "Best"
        /\ wop.encoder.filter = "Adaptive"

\* A PNG was encoded at quality 79 with the Default level.
C12_Witness ==
    /\ wpc = "send"
    /\ wop.encoder.codec = "png"
    /\ wtask.quality = 79
    /\ wop.encoder.compression = "Default"

\* C13: for a WebP destination the quality has no influence: the encoder is
\* the lossless one, built without the quality, and the same task with any
\* other quality gives the same result, the same files and the same encoder
\* in the same state of the file system.
C13_WebpIgnoresQuality ==
    (wpc = "send" /\ wop.format = "WebP") =>
        /\ wop.encoder \in
               { NoEncoder,
                 [codec |-> "webp", quality |-> 0, compression |-> "lossless", filter |-> "-"] }
        /\ \E o \in {NoError} \cup LoadReasons,
              c \in {NoError} \cup CreateReasons,
              e \in {NoError} \cup EncodeReasons :
                \A q \in QualityProbes \cup {wtask.quality} :
                    perform_compression([wtask EXCEPT !.quality = q],
                                        [open |-> o, create |-> c, encode |-> e])
                        = [result |-> wresult, op |-> wop]

\* A WebP file was written for a task of quality 17.
C13_Witness ==
    /\ wpc = "send"
    /\ wop.format = "WebP"
    /\ wresult.ok
    /\ wtask.quality = 17
    /\ wtask.output_path = <<"W",".","W","E","B","P">>

\* C14: the quality of the UI is in 1..100 in every reachable state, and so
\* is the quality of every task queued for the worker or held by it.
C14_QualityRange ==
    /\ quality \in 1..100
    /\ \A i \in 1..Len(compress_ch) : compress_ch[i].quality \in 1..100
    /\ wpc \in {"compress", "send"} => wtask.quality \in 1..100

\* The slider was dragged to both ends: the worker holds a task of quality
\* 100 while the UI shows quality 1.
C14_Witness == wpc = "compress" /\ wtask.quality = 100 /\ quality = 1

\* A poll that receives an outcome.
PollReceives == Poll /\ result_ch # << >>

\* C15: the status is "Ready" at the start and never empty; each event sets
\* it to its text (a confirmed input pick, a confirmed output pick, a
\* submit, an outcome polled), and no other step changes it: it is always
\* the text of the most recent event.
C15_StatusIsLastEvent ==
    /\ status_message = <<"R","e","a","d","y">>
    /\ [](status_message # << >>)
    /\ [][(\E p \in InputPaths : PickInput(p))
             => status_message' = <<"I","n","p","u","t"," ","f","i","l","e"," ","s","e","l","e","c","t","e","d">>]_vars
    /\ [][(\E p \in OutputPaths : PickOutput(p))
             => status_message' = <<"O","u","t","p","u","t"," ","f","i","l","e"," ","s","e","l","e","c","t","e","d">>]_vars
    /\ [][ClickCompress => status_message' = <<"C","o","m","p","r","e","s","s","i","n","g",".",".",".">>]_vars
    /\ [][PollReceives => (status_message' = Head(result_ch).msg
                            /\ Head(result_ch).msg # << >>)]_vars
    /\ [][status_message' # status_message
             => \/ \E p \in InputPaths : PickInput(p)
                \/ \E p \in OutputPaths : PickOutput(p)
                \/ ClickCompress
                \/ PollReceives]_vars

\* The status shows an output pick made after an outcome was polled.
C15_Witness ==
    /\ received = 1
    /\ ~is_compressing
    /\ status_message = <<"O","u","t","p","u","t"," ","f","i","l","e"," ","s","e","l","e","c","t","e","d">>

\* C16: the worker takes tasks from the head of the request channel, one at
\* a time, and the task it holds is the one the UI sent last; the k-th
\* outcome the UI polls arrives when k tasks were sent and is a result of
\* perform_compression on the k-th task.
C16_FifoOrder ==
    /\ [](compress_ch # << >> => compress_ch[Len(compress_ch)] = submitted)
    /\ [](wpc \in {"compress", "send"} => wtask = submitted)
    /\ [][(wtask' # wtask /\ wtask' # NoTask)
             => (wpc = "recv" /\ wtask = NoTask /\ compress_ch # << >>
                 /\ wtask' = Head(compress_ch) /\ compress_ch' = Tail(compress_ch))]_vars
    /\ [][received' # received
             => /\ received' = received + 1
                /\ received' = sent
                /\ result_ch # << >>
                /\ result_ch' = Tail(result_ch)
                /\ \E o \in {NoError} \cup LoadReasons,
                      c \in {NoError} \cup CreateReasons,
                      e \in {NoError} \cup EncodeReasons :
                        perform_compression(submitted,
                            [open |-> o, create |-> c, encode |-> e]).result
                            = Head(result_ch)]_vars

\* The second outcome was polled and is the success of the second task.
C16_Witness ==
    /\ received = 2
    /\ upc = "widgets"
    /\ status_message = <<"S","u","c","c","e","s","s",":"," ","s","a","v","e","d"," ","t","o"," ">> \o submitted.output_path
    /\ failures = 1

\* C17: after the application closed the channels the worker stops only by
\* leaving its loop, with the request that was in flight run to completion:
\* a stopped worker holds no task and leaves none queued.
C17_WorkerRunsToCompletion ==
    wpc \in {"exited", "killed"} =>
        (wpc = "exited" /\ wtask = NoTask /\ compress_ch = << >>)

\* C18 as stated: a failed decode gives "Error: loading image: " (a colon
\* directly after "Error") followed by the decoder's reason.
C18_ColonAfterError ==
    LoadFailed =>
        \E r \in LoadReasons : wresult = Err(<<"E","r","r","o","r",":"," ","l","o","a","d","i","n","g"," ","i","m","a","g","e",":"," ">> \o r)

\* C18 as amended: a failed decode gives the Err "Error loading image: "
\* (no colon after "Error") followed by the decoder's reason.
C18_LoadErrorText ==
    LoadFailed =>
        \E r \in LoadReasons : wresult = Err(<<"E","r","r","o","r"," ","l","o","a","d","i","n","g"," ","i","m","a","g","e",":"," ">> \o r)

\* The decode of the input failed with the reason "nf".
C18_Witness == LoadFailed /\ wresult.msg = <<"E","r","r","o","r"," ","l","o","a","d","i","n","g"," ","i","m","a","g","e",":"," ","n","f">>

\* C19: perform_compression decodes, then selects the format, then creates
\* the file, then encodes, and stops at the first failure: a failed decode
\* gives the load error whatever the extension and selects no format; an
\* unsupported extension creates no file; an encoder is built only after the
\* file was created; and a file is created or truncated only for a result
\* "Success: saved to ..." or "Error saving image: ...".
C19_StepOrder ==
    wpc = "send" =>
        /\ ~wop.decoded =>
               /\ starts_with(wresult.msg, <<"E","r","r","o","r"," ","l","o","a","d","i","n","g"," ","i","m","a","g","e",":"," ">>)
               /\ wop.format = "-"
               /\ wop.created = NoPath
        /\ (wop.decoded /\ wop.format = "unsupported") =>
               /\ wresult.msg = <<"E","r","r","o","r",":"," ","u","n","s","u","p","p","o","r","t","e","d"," ","f","o","r","m","a","t","."," ","U","s","e"," ",".","j","p","g",","," ",".","p","n","g",","," ","o","r"," ",".","w","e","b","p">>
               /\ wop.created = NoPath
        /\ wop.encoder # NoEncoder => wop.created # NoPath
        /\ wresult.ok => wop.encoder # NoEncoder
        /\ wop.created # NoPath =>
               /\ wop.decoded
               /\ wop.format \in {"Jpeg", "Png", "WebP"}
               /\ wop.created = wtask.output_path
               /\ \/ wresult.ok /\ starts_with(wresult.msg, <<"S","u","c","c","e","s","s",":"," ","s","a","v","e","d"," ","t","o"," ">>)
                  \/ ~wresult.ok /\ starts_with(wresult.msg, <<"E","r","r","o","r"," ","s","a","v","i","n","g"," ","i","m","a","g","e",":"," ">>)

\* An undecodable input with an unsupported output extension was answered.
C19_Witness == LoadFailed /\ wtask.output_path = <<"x",".","g","i","f">>

\* C20: while the UI is idle nothing is in flight: the request channel is
\* empty, the worker waits in recv and holds no task, the result channel is
\* empty.
C20_IdleIsQuiescent ==
    ~is_compressing =>
        /\ compress_ch = << >>
        /\ wpc = "recv"
        /\ wtask = NoTask
        /\ result_ch = << >>

\* The UI is idle right after the poll that received the first outcome.
C20_Witness == ~is_compressing /\ received = 1 /\ sent = 1 /\ upc = "widgets"
=============================================================================
